---- MODULE Spec2Model ----
(***************************************************************************)
(* Streaming RLP transaction decoder of the Fantom Ledger app               *)
(* (src/src/tx_stream.c).  txStreamProcess is called once per buffer of    *)
(* the command channel; all progress lives in the tx_stream_context_t, the *)
(* transaction_t destination record and the running SHA3 state.            *)
(*                                                                         *)
(* Bytes are integers 0..255.  The SHA3 accumulator is modelled by the     *)
(* sequence of bytes fed to cx_hash, in order.  A pointer into the work    *)
(* buffer is the number of bytes before it.                                *)
(***************************************************************************)
EXTENDS Integers, Sequences, FiniteSets, TLC

(***************************************************************************)
(* tx_stream.h / rlp_utils.h / common.h are not part of the sources at     *)
(* hand: the enumeration order, the limits and the RLP length primitive    *)
(* are taken from the specification (sections 4.2, 4.3, 6 and 8).          *)
(***************************************************************************)
TX_RLP_NONE == 0
TX_RLP_ENVELOPE == 1
TX_RLP_TYPE == 2
TX_RLP_NONCE == 3
TX_RLP_GAS_PRICE == 4
TX_RLP_START_GAS == 5
TX_RLP_VALUE == 6
TX_RLP_RECIPIENT == 7
TX_RLP_DATA == 8
TX_RLP_V == 9
TX_RLP_R == 10
TX_RLP_S == 11
TX_RLP_DONE == 12

TX_MAX_INT256_LENGTH == 32
TX_MAX_ADDRESS_LENGTH == 20
MAX_BUFFER_SIZE == 255
RLP_LENGTH_BUFFER_SIZE == 5
TX_FLAG_TYPE == 1

TX_STREAM_PROCESSING == "Processing"
TX_STREAM_FINISHED == "Finished"
TX_STREAM_FAULT == "Fault"

Min(a, b) == IF a < b THEN a ELSE b

\* flags & TX_FLAG_TYPE, TX_FLAG_TYPE being a single bit
FlagTypeSet(flags) == (flags \div TX_FLAG_TYPE) % 2 = 1

(***************************************************************************)
(* RLP length primitive.  rlpCanDecode: can the header held in the first   *)
(* bufferLength bytes of buffer be decoded, and is it well formed (lengths *)
(* are limited to 32 bits, i.e. at most four length bytes).                *)
(***************************************************************************)
rlpCanDecode(buffer, bufferLength) ==
    LET b == buffer[1] IN
    IF b <= 127 THEN [can |-> TRUE, valid |-> TRUE]
    ELSE IF b <= 183 THEN [can |-> TRUE, valid |-> TRUE]
    ELSE IF b <= 191 THEN
        IF bufferLength < 1 + (b - 183) THEN [can |-> FALSE, valid |-> FALSE]
        ELSE IF b > 187 THEN [can |-> TRUE, valid |-> FALSE]
        ELSE [can |-> TRUE, valid |-> TRUE]
    ELSE IF b <= 247 THEN [can |-> TRUE, valid |-> TRUE]
    ELSE
        IF bufferLength < 1 + (b - 247) THEN [can |-> FALSE, valid |-> FALSE]
        ELSE IF b > 251 THEN [can |-> TRUE, valid |-> FALSE]
        ELSE [can |-> TRUE, valid |-> TRUE]

\* big-endian value of buffer[2..1+n]; the streams of this model declare
\* lengths far below 2^31, so that the 32-bit sum never wraps
RECURSIVE BigEndian(_, _)
BigEndian(buffer, n) ==
    IF n = 0 THEN 0 ELSE BigEndian(buffer, n - 1) * 256 + buffer[1 + n]

\* rlpDecodeLength: declared length, header size ("offset") and list flag
rlpDecodeLength(buffer, bufferLength) ==
    LET b == buffer[1] IN
    IF b <= 127 THEN
        [ok |-> TRUE, fieldLength |-> 1, offset |-> 0, list |-> FALSE]
    ELSE IF b <= 183 THEN
        [ok |-> TRUE, fieldLength |-> b - 128, offset |-> 1, list |-> FALSE]
    ELSE IF b <= 191 THEN
        [ok |-> b <= 187, fieldLength |-> BigEndian(buffer, Min(b - 183, 4)),
         offset |-> 1 + (b - 183), list |-> FALSE]
    ELSE IF b <= 247 THEN
        [ok |-> TRUE, fieldLength |-> b - 192, offset |-> 1, list |-> TRUE]
    ELSE
        [ok |-> b <= 251, fieldLength |-> BigEndian(buffer, Min(b - 247, 4)),
         offset |-> 1 + (b - 247), list |-> TRUE]

(***************************************************************************)
(* The state one call works on is a record s:                              *)
(*   s.ctx     tx_stream_context_t                                         *)
(*   s.tx      transaction_t, the caller's destination record              *)
(*   s.sha3    the bytes fed to cx_hash so far                             *)
(*   s.buffer  the buffer of the current call, [at, bytes]: a pointer is   *)
(*             the offset in the caller's stream of the byte it points at, *)
(*             the call's buffer holding the stream from offset s.buffer.at*)
(*   s.thrown  an exception (THROW / failed VALIDATE) is propagating       *)
(*   s.gh      history of the call, read by the properties only:           *)
(*             hw       highest cursor position the call reached           *)
(*             hdrAt    stream offset where the current header started     *)
(*             hdrHash  number of hashed bytes at that moment              *)
(*             lastDone the last field completed in this call              *)
(*             stepsOk  every change of position in this call was a legal  *)
(*                      step                                               *)
(*             copiesOk every copy of this call kept within its field      *)
(*             env      what the envelope step left behind                 *)
(***************************************************************************)
NULL == "NULL"

NoEnvelope == [field |-> TX_RLP_NONE, inField |-> FALSE, cursor |-> 0,
               hashed |-> 0, declared |-> 0, flags |-> 0]

NoneDone == [field |-> TX_RLP_NONE, slot |-> NULL, length |-> 0, single |-> FALSE,
             from |-> 0, to |-> 0, hashFrom |-> 0, hashTo |-> 0]

Throw(s) == [s EXCEPT !.thrown = TRUE]

\* the element of a one-element set: The({e(x) : x \in {v}}) is e(v), with v
\* worked out once
The(S) == CHOOSE x \in S : TRUE

Max(a, b) == IF a > b THEN a ELSE b

\* txStreamInit: cleared context, fresh hash, expecting the envelope
txStreamInit(tx) ==
    [ctx |-> [currentField |-> TX_RLP_ENVELOPE,
              isProcessingField |-> FALSE,
              currentFieldLength |-> 0,
              currentFieldPos |-> 0,
              isCurrentFieldList |-> FALSE,
              isFieldSingleByte |-> FALSE,
              processingFlags |-> 0,
              dataLength |-> 0,
              rlpBuffer |-> [i \in 1..RLP_LENGTH_BUFFER_SIZE |-> 0],
              rlpBufferPos |-> 0,
              workBuffer |-> 0,
              workBufferLength |-> 0],
     tx |-> tx,
     sha3 |-> << >>]

\* txStreamReadByte: one byte off the work buffer, hashed unless the field in
\* progress is a self-encoded single byte
txStreamReadByte(s) ==
    IF s.ctx.workBufferLength < 1 THEN [s |-> Throw(s), data |-> 0]
    ELSE
      LET data == s.buffer.bytes[s.ctx.workBuffer - s.buffer.at + 1]
          ctx1 == [s.ctx EXCEPT !.workBuffer = @ + 1,
                                !.workBufferLength = @ - 1,
                                !.currentFieldPos =
                                    IF s.ctx.isProcessingField THEN @ + 1 ELSE @]
          sha1 == IF ~(s.ctx.isProcessingField /\ s.ctx.isFieldSingleByte)
                  THEN Append(s.sha3, data) ELSE s.sha3
      IN [s |-> [s EXCEPT !.ctx = ctx1, !.sha3 = sha1,
                          !.gh.hw = Max(@, ctx1.workBuffer)],
          data |-> data]

FieldSlotKeepsNonce(f) ==
    CASE f \in {TX_RLP_NONCE, TX_RLP_GAS_PRICE} -> "gasPrice"
      [] f = TX_RLP_START_GAS -> "startGas"
      [] f = TX_RLP_VALUE -> "value"
      [] f = TX_RLP_RECIPIENT -> "recipient"
      [] f = TX_RLP_V -> "v"
      [] OTHER -> NULL

\* the destination slot and the maximum the dispatcher passes for a field
FieldSlot(f) ==
    CASE f = TX_RLP_GAS_PRICE -> "gasPrice"
      [] f = TX_RLP_START_GAS -> "startGas"
      [] f = TX_RLP_VALUE -> "value"
      [] f = TX_RLP_RECIPIENT -> "recipient"
      [] f = TX_RLP_V -> "v"
      [] OTHER -> NULL

FieldMax(f) ==
    CASE f \in {TX_RLP_DATA, TX_RLP_R, TX_RLP_S} -> MAX_BUFFER_SIZE
      [] f = TX_RLP_RECIPIENT -> TX_MAX_ADDRESS_LENGTH
      [] OTHER -> TX_MAX_INT256_LENGTH

\* os_memmove(slot.value + off, workBuffer, length)
MoveInto(tx, slot, off, buffer, from, length) ==
    [tx EXCEPT ![slot].value =
        [i \in DOMAIN @ |-> IF i > off /\ i <= off + length
                            THEN buffer[from + (i - off)] ELSE @[i]]]

CopyHashedAlways(s, out, off, length) == TRUE

CopyHashedNormally(s, out, off, length) ==
    ~(s.ctx.isProcessingField /\ s.ctx.isFieldSingleByte)

\* history: the copy stays within the declared length, the declared length
\* within the field's maximum, and takes all the buffer or all the field needs
CopyOk(s, out, off, length) ==
    /\ off + length <= s.ctx.currentFieldLength
    /\ s.ctx.currentFieldLength <= FieldMax(s.ctx.currentField)
    /\ length = Min(s.ctx.workBufferLength,
                    s.ctx.currentFieldLength - s.ctx.currentFieldPos)

\* txStreamCopyData: length bytes from the work buffer to out + off (out may be
\* NULL), hashed unless the field in progress is a self-encoded single byte
txStreamCopyData(s, out, off, length) ==
    IF s.ctx.workBufferLength < length THEN Throw(s)
    ELSE
      LET tx1 == IF out # NULL
                 THEN MoveInto(s.tx, out, off, s.buffer.bytes,
                               s.ctx.workBuffer - s.buffer.at, length)
                 ELSE s.tx
          sha1 == IF CopyHashedNormally(s, out, off, length)
                  THEN s.sha3 \o SubSeq(s.buffer.bytes,
                                        s.ctx.workBuffer - s.buffer.at + 1,
                                        s.ctx.workBuffer - s.buffer.at + length)
                  ELSE s.sha3
          ctx1 == [s.ctx EXCEPT !.workBuffer = @ + length,
                                !.workBufferLength = @ - length,
                                !.currentFieldPos =
                                    IF s.ctx.isProcessingField THEN @ + length ELSE @]
      IN [s EXCEPT !.tx = tx1, !.sha3 = sha1, !.ctx = ctx1,
                   !.gh.hw = Max(@, ctx1.workBuffer),
                   !.gh.copiesOk = @ /\ CopyOk(s, out, off, length)]

txStreamProcessContentNonEmpty(s) ==
    IF ~s.ctx.isCurrentFieldList \/ s.ctx.currentFieldLength = 0 THEN Throw(s)
    ELSE [s EXCEPT !.ctx.dataLength = s.ctx.currentFieldLength,
                   !.ctx.currentField = @ + 1,
                   !.ctx.isProcessingField = FALSE]

txStreamProcessContentAnyItem(s) ==
    [s EXCEPT !.ctx.dataLength = s.ctx.currentFieldLength,
              !.ctx.currentField = @ + 1,
              !.ctx.isProcessingField = FALSE]

\* txStreamProcessContent: the envelope must be a list; its length is kept
txStreamProcessContent(s) ==
    IF ~s.ctx.isCurrentFieldList THEN Throw(s)
    ELSE [s EXCEPT !.ctx.dataLength = s.ctx.currentFieldLength,
                   !.ctx.currentField = @ + 1,
                   !.ctx.isProcessingField = FALSE]

FieldAdvanceEarly(s, field) ==
    IF s.ctx.currentFieldPos <= s.ctx.currentFieldLength
    THEN [s EXCEPT !.tx = IF field # NULL
                          THEN [@ EXCEPT ![field].length = s.ctx.currentFieldLength]
                          ELSE @,
                   !.ctx.currentField = @ + 1,
                   !.ctx.isProcessingField = FALSE]
    ELSE s

\* history: the field that has just been completed
NoteDone(s, slot) ==
    [field |-> s.ctx.currentField, slot |-> slot,
     length |-> s.ctx.currentFieldLength, single |-> s.ctx.isFieldSingleByte,
     from |-> s.gh.hdrAt, to |-> s.ctx.workBuffer,
     hashFrom |-> s.gh.hdrHash, hashTo |-> Len(s.sha3)]

\* the "are we done with the field?" block shared by the three field handlers
FieldAdvance(s, field) ==
    IF s.ctx.currentFieldPos = s.ctx.currentFieldLength
    THEN [s EXCEPT !.tx = IF field # NULL
                          THEN [@ EXCEPT ![field].length = s.ctx.currentFieldLength]
                          ELSE @,
                   !.gh.lastDone = NoteDone(s, field),
                   !.ctx.currentField = @ + 1,
                   !.ctx.isProcessingField = FALSE]
    ELSE s

FieldSizeStrict(s, fieldSize) == s.ctx.currentFieldLength < fieldSize

FieldSizeLax(s, fieldSize) == s.ctx.currentFieldLength <= fieldSize + 1

FieldSizeOk(s, fieldSize) == s.ctx.currentFieldLength <= fieldSize

FieldCopyWholeBuffer(s, field) ==
    IF s.ctx.currentFieldPos < s.ctx.currentFieldLength
    THEN txStreamCopyData(s, field, s.ctx.currentFieldPos, s.ctx.workBufferLength)
    ELSE s

FieldCopyNoOffset(s, field) ==
    IF s.ctx.currentFieldPos < s.ctx.currentFieldLength
    THEN LET left == s.ctx.currentFieldLength - s.ctx.currentFieldPos
             toCopy == IF s.ctx.workBufferLength < left
                       THEN s.ctx.workBufferLength ELSE left
         IN txStreamCopyData(s, field, 0, toCopy)
    ELSE s

\* the copy part shared by the three field handlers
FieldCopy(s, field) ==
    IF s.ctx.currentFieldPos < s.ctx.currentFieldLength
    THEN LET left == s.ctx.currentFieldLength - s.ctx.currentFieldPos
             toCopy == IF s.ctx.workBufferLength < left
                       THEN s.ctx.workBufferLength ELSE left
         IN txStreamCopyData(s, field, s.ctx.currentFieldPos, toCopy)
    ELSE s

txStreamProcessInt256FieldAnyItem(s, field, fieldSize) ==
    IF ~FieldSizeOk(s, fieldSize) THEN Throw(s)
    ELSE The({IF s1.thrown THEN s1 ELSE FieldAdvance(s1, field) :
                 s1 \in {FieldCopy(s, field)}})

txStreamProcessInt256Field(s, field, fieldSize) ==
    IF s.ctx.isCurrentFieldList THEN Throw(s)
    ELSE IF ~FieldSizeOk(s, fieldSize) THEN Throw(s)
    ELSE The({IF s1.thrown THEN s1 ELSE FieldAdvance(s1, field) :
                 s1 \in {FieldCopy(s, field)}})

txStreamProcessAddressField(s, address, fieldSize) ==
    IF s.ctx.isCurrentFieldList THEN Throw(s)
    ELSE IF ~FieldSizeOk(s, fieldSize) THEN Throw(s)
    ELSE The({IF s1.thrown THEN s1 ELSE FieldAdvance(s1, address) :
                 s1 \in {FieldCopy(s, address)}})

txStreamProcessVField(s, v, fieldSize) ==
    IF s.ctx.isCurrentFieldList THEN Throw(s)
    ELSE IF ~FieldSizeOk(s, fieldSize) THEN Throw(s)
    ELSE The({IF s1.thrown THEN s1 ELSE FieldAdvance(s1, v) :
                 s1 \in {FieldCopy(s, v)}})

EnvelopeNextSkipsType(s) == [s EXCEPT !.ctx.currentField = @ + 1]

\* after the envelope: skip TX_RLP_TYPE unless the flags announce a type
EnvelopeNext(s) ==
    IF ~FlagTypeSet(s.ctx.processingFlags)
    THEN [s EXCEPT !.ctx.currentField = @ + 1] ELSE s

\* txStreamParseFieldProxy: dispatch on the current field
txStreamParseFieldProxy(s) ==
    LET f == s.ctx.currentField IN
    IF f = TX_RLP_ENVELOPE THEN
        [s |-> The({IF s1.thrown THEN s1 ELSE EnvelopeNext(s1) :
                    s1 \in {txStreamProcessContent(s)}}),
         status |-> TX_STREAM_PROCESSING]
    ELSE IF f \in {TX_RLP_TYPE, TX_RLP_NONCE} THEN
        [s |-> txStreamProcessInt256Field(s, FieldSlot(f), TX_MAX_INT256_LENGTH),
         status |-> TX_STREAM_PROCESSING]
    ELSE IF f \in {TX_RLP_GAS_PRICE, TX_RLP_START_GAS, TX_RLP_VALUE} THEN
        [s |-> txStreamProcessInt256Field(s, FieldSlot(f), TX_MAX_INT256_LENGTH),
         status |-> TX_STREAM_PROCESSING]
    ELSE IF f = TX_RLP_RECIPIENT THEN
        [s |-> txStreamProcessAddressField(s, "recipient", TX_MAX_ADDRESS_LENGTH),
         status |-> TX_STREAM_PROCESSING]
    ELSE IF f \in {TX_RLP_DATA, TX_RLP_R, TX_RLP_S} THEN
        [s |-> txStreamProcessInt256Field(s, FieldSlot(f), MAX_BUFFER_SIZE),
         status |-> TX_STREAM_PROCESSING]
    ELSE IF f = TX_RLP_V THEN
        [s |-> txStreamProcessVField(s, "v", TX_MAX_INT256_LENGTH),
         status |-> TX_STREAM_PROCESSING]
    ELSE [s |-> s, status |-> TX_STREAM_FAULT]

\* txStreamDetectField: feed the RLP buffer byte by byte until the header in it
\* can be decoded or the work buffer is empty
RECURSIVE txStreamDetectField(_)
txStreamDetectField(s) ==
    IF s.ctx.workBufferLength = 0
    THEN [s |-> s, status |-> TX_STREAM_PROCESSING, canDecode |-> FALSE]
    ELSE IF s.ctx.rlpBufferPos = RLP_LENGTH_BUFFER_SIZE
    THEN [s |-> s, status |-> TX_STREAM_FAULT, canDecode |-> FALSE]
    ELSE
      The({
        LET cd == rlpCanDecode(s1.ctx.rlpBuffer, s1.ctx.rlpBufferPos)
        IN IF s1.thrown
           THEN [s |-> s1, status |-> TX_STREAM_FAULT, canDecode |-> FALSE]
           ELSE IF cd.can
           THEN IF ~cd.valid
                THEN [s |-> s1, status |-> TX_STREAM_FAULT, canDecode |-> FALSE]
                ELSE [s |-> s1, status |-> TX_STREAM_PROCESSING, canDecode |-> TRUE]
           ELSE txStreamDetectField(s1)
        : s1 \in {The({[r.s EXCEPT !.ctx.rlpBuffer[s.ctx.rlpBufferPos + 1] = r.data,
                                   !.ctx.rlpBufferPos = @ + 1] :
                       r \in {txStreamReadByte(s)}})}})

SingleByteNoRewind(s, offset) == s

\* the "hack for self encoded single byte": give the byte back to the buffer
SingleByteRewind(s, offset) ==
    IF offset = 0
    THEN [s EXCEPT !.ctx.workBuffer = @ - 1, !.ctx.workBufferLength = @ + 1]
    ELSE s

\* txStreamParse, the block run at the edge of a new field: detect the header,
\* decode it and enter the field.  go = FALSE: txStreamParse returns status.
txStreamParseHeader(s) ==
    The({
    LET dec == rlpDecodeLength(d.s.ctx.rlpBuffer, d.s.ctx.rlpBufferPos)
        s1 == [d.s EXCEPT !.ctx.currentFieldLength = dec.fieldLength,
                          !.ctx.isCurrentFieldList = dec.list,
                          !.ctx.rlpBufferPos = 0,
                          !.ctx.isFieldSingleByte = (dec.offset = 0)]
        s2 == SingleByteRewind(s1, dec.offset)
    IN IF d.s.thrown \/ d.status = TX_STREAM_FAULT
       THEN [s |-> d.s, status |-> TX_STREAM_FAULT, go |-> FALSE]
       ELSE IF ~d.canDecode
       THEN [s |-> d.s, status |-> TX_STREAM_PROCESSING, go |-> FALSE]
       ELSE IF ~dec.ok
       THEN [s |-> [d.s EXCEPT !.ctx.currentFieldLength = dec.fieldLength,
                               !.ctx.isCurrentFieldList = dec.list],
             status |-> TX_STREAM_FAULT, go |-> FALSE]
       ELSE [s |-> [s2 EXCEPT !.ctx.currentFieldPos = 0,
                              !.ctx.isProcessingField = TRUE],
             status |-> TX_STREAM_PROCESSING, go |-> TRUE]
    : d \in {txStreamDetectField(
                 IF s.ctx.rlpBufferPos = 0
                 THEN [s EXCEPT !.gh.hdrAt = s.ctx.workBuffer,
                                !.gh.hdrHash = Len(s.sha3)]
                 ELSE s)}})

\* history: one run of the dispatcher moves the position by nothing, by one
\* at the end of a field, or off the envelope by one (type announced) or two
StepOk(before, after) ==
    LET d == after.ctx.currentField - before.ctx.currentField IN
    /\ after.ctx.currentField <= TX_RLP_DONE
    /\ \/ d = 0
       \/ /\ before.ctx.currentField = TX_RLP_ENVELOPE
          /\ d = IF FlagTypeSet(before.ctx.processingFlags) THEN 1 ELSE 2
       \/ /\ before.ctx.currentField # TX_RLP_ENVELOPE
          /\ d = 1
          /\ after.ctx.currentFieldPos = after.ctx.currentFieldLength

\* history: the state the envelope step leaves
NoteEnvelope(after) ==
    [field |-> after.ctx.currentField, inField |-> after.ctx.isProcessingField,
     cursor |-> after.ctx.workBuffer, hashed |-> Len(after.sha3),
     declared |-> after.ctx.dataLength, flags |-> after.ctx.processingFlags]

\* history of one pass of the loop of txStreamParse: top is the state at the
\* top of the loop, before the state handed to the dispatcher, p what it returns
Observe(top, before, p) ==
    [p EXCEPT !.s.gh.stepsOk = /\ @
                               /\ before.ctx.currentField = top.ctx.currentField
                               /\ StepOk(before, p.s),
              !.s.gh.env = IF before.ctx.currentField = TX_RLP_ENVELOPE /\ ~p.s.thrown
                           THEN NoteEnvelope(p.s) ELSE @]

LegacyEndNever(s) == FALSE

LegacyEndAtR(s) == (s.ctx.currentField = TX_RLP_R) /\ (s.ctx.workBufferLength = 0)

\* the legacy shape: the buffer ends where the v field is expected
LegacyEnd(s) == (s.ctx.currentField = TX_RLP_V) /\ (s.ctx.workBufferLength = 0)

AtDoneNever(s) == FALSE

\* "are we done with the parsing?"
AtDone(s) == s.ctx.currentField = TX_RLP_DONE

\* txStreamParse: loop over the fields until the buffer is parsed
RECURSIVE txStreamParse(_)
txStreamParse(s) ==
    IF AtDone(s)
    THEN [s |-> s, status |-> TX_STREAM_FINISHED]
    ELSE IF LegacyEnd(s)
    THEN [s |-> [s EXCEPT !.tx.v.length = 0], status |-> TX_STREAM_FINISHED]
    ELSE IF s.ctx.workBufferLength = 0
    THEN [s |-> s, status |-> TX_STREAM_PROCESSING]
    ELSE
      The({
        IF ~h.go THEN [s |-> h.s, status |-> h.status]
        ELSE The({IF p.s.thrown \/ p.status = TX_STREAM_FAULT
                  THEN [s |-> p.s, status |-> TX_STREAM_FAULT]
                  ELSE txStreamParse(p.s) :
                  p \in {The({Observe(s, h.s, q) :
                                q \in {txStreamParseFieldProxy(h.s)}})}})
        : h \in {IF ~s.ctx.isProcessingField
                 THEN txStreamParseHeader(s)
                 ELSE [s |-> s, status |-> TX_STREAM_PROCESSING, go |-> TRUE]}})

AwaitingFieldOrDone(s) ==
    s.ctx.currentField > TX_RLP_NONE /\ s.ctx.currentField <= TX_RLP_DONE

\* "make sure we are actually waiting for a field"
AwaitingField(s) ==
    s.ctx.currentField > TX_RLP_NONE /\ s.ctx.currentField < TX_RLP_DONE

\* txStreamProcess: one buffer into the stream; every exception becomes Fault
txStreamProcess(s, buffer, flags) ==
    LET length == Len(buffer.bytes) IN
    IF ~(length > 0) THEN [s |-> s, result |-> TX_STREAM_FAULT]
    ELSE IF ~AwaitingField(s) THEN [s |-> s, result |-> TX_STREAM_FAULT]
    ELSE
      The({[s |-> r.s,
            result |-> IF r.s.thrown THEN TX_STREAM_FAULT ELSE r.status] :
           r \in {The({txStreamParse(s1) :
                       s1 \in {[s EXCEPT !.buffer = buffer,
                                         !.ctx.workBuffer = buffer.at,
                                         !.ctx.workBufferLength = length,
                                         !.ctx.processingFlags = flags,
                                         !.thrown = FALSE,
                                         !.gh.hw = buffer.at,
                                         !.gh.stepsOk = TRUE,
                                         !.gh.copiesOk = TRUE,
                                         !.gh.lastDone = NoneDone]}})}})

(***************************************************************************)
(* The caller's streams.  A stream is the RLP encoding the caller cuts     *)
(* into buffers: well-formed transactions (with or without the type field, *)
(* with or without the trailing v, r, s), and malformed ones.              *)
(***************************************************************************)
MaxFieldLen == 2
TrailLen == 2

EncodeItem(p, long) ==
    IF Len(p) = 1 /\ p[1] < 128 THEN p
    ELSE IF long /\ Len(p) > 0 THEN <<184, Len(p)>> \o p
    ELSE <<128 + Len(p)>> \o p

ListHeader(n, long) == IF long \/ n > 55 THEN <<248, n>> ELSE <<192 + n>>

RECURSIVE Concat(_)
Concat(ss) == IF ss = << >> THEN << >> ELSE Head(ss) \o Concat(Tail(ss))

\* a profile gives every field its payload: n(f) bytes, high or low, and says
\* whether the headers of the envelope, of data and of v are written in the
\* long form
Payload(pr, f) ==
    [i \in 1..pr.n[f] |-> (IF pr.hi THEN 128 ELSE 0) + 8 * f + i]

Fields == TX_RLP_TYPE..TX_RLP_S

Profiles ==
    {[n |-> [f \in Fields |-> k], hi |-> FALSE, long |-> FALSE] : k \in 0..MaxFieldLen}
    \cup {[n |-> [f \in Fields |-> (f + d) % (MaxFieldLen + 1)], hi |-> TRUE,
           long |-> (d = 1)] : d \in 0..1}

\* the fields of a transaction: the type if typed, nonce..data, v..s if signed
Shape(typed, signed) ==
    (IF typed THEN <<TX_RLP_TYPE>> ELSE << >>)
    \o <<TX_RLP_NONCE, TX_RLP_GAS_PRICE, TX_RLP_START_GAS, TX_RLP_VALUE,
         TX_RLP_RECIPIENT, TX_RLP_DATA>>
    \o (IF signed THEN <<TX_RLP_V, TX_RLP_R, TX_RLP_S>> ELSE << >>)

LongFields == {TX_RLP_DATA, TX_RLP_V}

Body(pr, fs) ==
    Concat([i \in 1..Len(fs) |->
               EncodeItem(Payload(pr, fs[i]), pr.long /\ fs[i] \in LongFields)])

Encode(pr, typed, signed) ==
    LET body == Body(pr, Shape(typed, signed))
    IN ListHeader(Len(body), pr.long) \o body

ValidStreams ==
    {[bytes |-> Encode(pr, typed, signed), kind |-> "valid", typed |-> typed] :
        pr \in Profiles, typed \in BOOLEAN, signed \in BOOLEAN}

Trail == [i \in 1..TrailLen |-> 16 + i]

\* a well-formed signed transaction followed by further bytes
TrailingStreams ==
    {[bytes |-> Encode(pr, typed, TRUE) \o Trail, kind |-> "trailing", typed |-> typed] :
        pr \in {q \in Profiles : q.hi}, typed \in BOOLEAN}

\* the outermost item is a scalar, or its header cannot be decoded
EnvelopeStreams ==
    {[bytes |-> h \o Trail, kind |-> "envelope", typed |-> FALSE] :
        h \in {<<5>>, <<128>>, <<131>>, <<184, 3>>, <<185, 0, 3>>,
               <<188, 1, 2, 3, 4, 5>>, <<191, 1, 2, 3, 4, 5>>, <<252, 1, 2, 3, 4, 5>>}}

\* a header declaring more than the field's maximum
TooLong(f) ==
    IF f \in {TX_RLP_DATA, TX_RLP_R, TX_RLP_S} THEN <<185, 1, 0>>
    ELSE IF f = TX_RLP_RECIPIENT THEN <<128 + TX_MAX_ADDRESS_LENGTH + 1>>
    ELSE <<128 + TX_MAX_INT256_LENGTH + 1>>

\* the fields before f, well formed, then `bad` where f is expected
Broken(pr, typed, f, bad) ==
    LET all == Shape(typed, TRUE)
        before == SelectSeq(all, LAMBDA g : g < f)
        body == Body(pr, before) \o bad \o Trail
    IN ListHeader(Len(body), pr.long) \o body

MixedProfile == CHOOSE pr \in Profiles : pr.hi /\ ~pr.long

CapacityStreams ==
    {[bytes |-> Broken(MixedProfile, f = TX_RLP_TYPE \/ f % 2 = 0, f, TooLong(f)),
      kind |-> "capacity", typed |-> (f = TX_RLP_TYPE \/ f % 2 = 0)] : f \in Fields}

\* a list where the scalar f is expected, its header short or long
ListStreams ==
    {[bytes |-> Broken(MixedProfile, f = TX_RLP_TYPE \/ f % 2 = 1, f, <<193>>),
      kind |-> "list", typed |-> (f = TX_RLP_TYPE \/ f % 2 = 1)] : f \in Fields}
    \cup {[bytes |-> Broken(MixedProfile, FALSE, f, <<248, 1>>),
           kind |-> "list", typed |-> FALSE] : f \in {TX_RLP_NONCE, TX_RLP_V}}

\* every field present, the recipient a full address
FullStreams ==
    {[bytes |-> Encode([pr EXCEPT !.n[TX_RLP_RECIPIENT] = TX_MAX_ADDRESS_LENGTH],
                       typed, TRUE),
      kind |-> "full", typed |-> typed] : pr \in Profiles, typed \in BOOLEAN}

AllStreams ==
    ValidStreams \cup TrailingStreams \cup EnvelopeStreams
    \cup CapacityStreams \cup ListStreams

\* the destination record is the caller's: txStreamInit leaves it as it is
Slots == {"gasPrice", "startGas", "value", "recipient", "v"}

SlotSize(slot) == IF slot = "recipient" THEN TX_MAX_ADDRESS_LENGTH
                  ELSE TX_MAX_INT256_LENGTH

InitialTx ==
    {[slot \in Slots |-> [value |-> [i \in 1..SlotSize(slot) |-> b], length |-> l]] :
        <<b, l>> \in {<<0, 0>>, <<238, 3>>}}

FlagValues == {0, TX_FLAG_TYPE}

(***************************************************************************)
(* State.  ctx, tx, sha3: the context, the destination record and the hash.*)
(* result: the status of the last call ("None" before the first).          *)
(* stream, kind, typed: the caller's stream; fed: how many of its bytes    *)
(* have been passed in buffers; tx0: the destination record at             *)
(* txStreamInit.  consumed: the bytes the parser has taken off its buffers,*)
(* call after call.  gh: the history kept by the last call.  twin: a       *)
(* second parser fed, in step, a stream that differs in the length its     *)
(* envelope declares (NoTwin where no second parser runs).                 *)
(***************************************************************************)
VARIABLES ctx, tx, sha3, result, stream, kind, typed, fed, tx0, consumed, gh, twin

vars == <<ctx, tx, sha3, result, stream, kind, typed, fed, tx0, consumed, gh, twin>>

NoTwin == "NoTwin"

NoHistory == [hw |-> 0, hdrAt |-> 0, hdrHash |-> 0, lastDone |-> NoneDone,
              stepsOk |-> TRUE, copiesOk |-> TRUE, env |-> NoEnvelope]

\* the record one call works on
Working(c, t, h, g) ==
    [ctx |-> c, tx |-> t, sha3 |-> h, gh |-> g, thrown |-> FALSE,
     buffer |-> [at |-> 0, bytes |-> << >>]]

Fresh(t) == Working(txStreamInit(t).ctx, t, txStreamInit(t).sha3, NoHistory)

Started(streams) ==
    /\ \E st \in streams :
          /\ stream = st.bytes
          /\ kind = st.kind
          /\ typed = st.typed
    /\ tx0 \in InitialTx
    /\ ctx = Fresh(tx0).ctx
    /\ tx = tx0
    /\ sha3 = Fresh(tx0).sha3
    /\ gh = NoHistory
    /\ result = "None"
    /\ fed = 0
    /\ consumed = << >>

InitOn(streams) == Started(streams) /\ twin = NoTwin

\* a context in cleared storage that txStreamInit has not been called on: its
\* position is TX_RLP_NONE
Cleared(t) ==
    Working([txStreamInit(t).ctx EXCEPT !.currentField = TX_RLP_NONE],
            t, << >>, NoHistory)

ClearedStream == Encode(MixedProfile, TRUE, TRUE)

InitCleared ==
    /\ stream = ClearedStream
    /\ kind = "cleared"
    /\ typed = TRUE
    /\ tx0 \in InitialTx
    /\ ctx = Cleared(tx0).ctx
    /\ tx = tx0
    /\ sha3 = Cleared(tx0).sha3
    /\ gh = NoHistory
    /\ result = "None"
    /\ fed = 0
    /\ consumed = << >>
    /\ twin = NoTwin

Init == InitOn(AllStreams) \/ InitCleared

\* the next n bytes of the stream
Buffer(n) == [at |-> fed, bytes |-> SubSeq(stream, fed + 1, fed + n)]

\* the caller passes the next n bytes of its stream with these flags
Call(n, flags) ==
    \E w \in {Working(ctx, tx, sha3, gh)} : \E b \in {Buffer(n)} :
    \E r \in {txStreamProcess(w, b, flags)} :
    LET took == IF r.s.gh.hw > fed THEN SubSeq(stream, fed + 1, r.s.gh.hw) ELSE << >>
    IN /\ ctx' = r.s.ctx
       /\ tx' = r.s.tx
       /\ sha3' = r.s.sha3
       /\ gh' = r.s.gh
       /\ result' = r.result
       /\ fed' = fed + n
       /\ consumed' = consumed \o took
       /\ UNCHANGED <<stream, kind, typed, tx0>>

Feed ==
    \E n \in 1..(Len(stream) - fed) : \E flags \in FlagValues :
        Call(n, flags) /\ UNCHANGED twin

FeedEmpty == \E flags \in FlagValues : Call(0, flags) /\ UNCHANGED twin

Next == Feed \/ FeedEmpty

Spec == Init /\ [][Next]_vars

\* the same parse with the flags the caller means throughout
IntendedFlags == IF typed THEN TX_FLAG_TYPE ELSE 0

\* a proper fragment: never the whole stream in one call
FeedFragment ==
    \E n \in 1..(Len(stream) - fed) :
        n < Len(stream) /\ Call(n, IntendedFlags) /\ UNCHANGED twin

InitFrag == InitOn(ValidStreams)

SpecFrag == InitFrag /\ [][FeedFragment]_vars

\* the caller passes its stream one byte per call
FeedByte == fed < Len(stream) /\ Call(1, IntendedFlags) /\ UNCHANGED twin

InitByte == InitOn(FullStreams)

SpecByte == InitByte /\ [][FeedByte]_vars

\* the length a list header declares
DeclaredLength(bytes) ==
    IF bytes[1] <= 247 THEN bytes[1] - 192
    ELSE BigEndian(bytes, bytes[1] - 247)

\* the stream with another length in its envelope header, of the same size
Redeclare(bytes, m) ==
    IF bytes[1] <= 247 THEN [bytes EXCEPT ![1] = 192 + m]
    ELSE [bytes EXCEPT ![2] = m]

\* the lengths the second stream declares: nothing, or one byte more
OtherLengths(bytes) == {0, DeclaredLength(bytes) + 1}

TwinStreams == ValidStreams \cup TrailingStreams

InitTwin ==
    /\ Started(TwinStreams)
    /\ \E m \in OtherLengths(stream) :
          twin = [ctx |-> Fresh(tx0).ctx, tx |-> tx0, sha3 |-> Fresh(tx0).sha3,
                  gh |-> NoHistory, result |-> "None",
                  stream |-> Redeclare(stream, m)]

\* the same call on the second parser: as many bytes of its stream, same flags
TwinCall(n, flags) ==
    \E w \in {Working(twin.ctx, twin.tx, twin.sha3, twin.gh)} :
    \E b \in {[at |-> fed, bytes |-> SubSeq(twin.stream, fed + 1, fed + n)]} :
    \E r \in {txStreamProcess(w, b, flags)} :
        twin' = [twin EXCEPT !.ctx = r.s.ctx, !.tx = r.s.tx, !.sha3 = r.s.sha3,
                             !.gh = r.s.gh, !.result = r.result]

FeedBoth ==
    \E n \in 1..(Len(stream) - fed) : \E flags \in FlagValues :
        Call(n, flags) /\ TwinCall(n, flags)

SpecTwin == InitTwin /\ [][FeedBoth]_vars

(***************************************************************************)
(* Properties.                                                             *)
(***************************************************************************)

\* the number of bytes of an item's header that must be read before its
\* length can be decoded (a self-encoded byte is its own header)
HeaderBytes(b) ==
    IF b <= 183 THEN 1
    ELSE IF b <= 191 THEN 1 + (b - 183)
    ELSE IF b <= 247 THEN 1
    ELSE 1 + (b - 247)

\* the byte whose arrival settles the envelope header: its last byte, or the
\* byte that no longer fits the length buffer
SettledAt(b) == Min(HeaderBytes(b), RLP_LENGTH_BUFFER_SIZE + 1)

\* the whole stream in one call on a freshly initialised state
OneShot ==
    The({txStreamProcess(w, b, IntendedFlags) :
         w \in {Fresh(tx0)}, b \in {[at |-> 0, bytes |-> stream]}})

\* C1: once all proper fragments of a valid encoding have been fed in order,
\* the destination record and the hashed bytes are those a single call on the
\* whole encoding leaves.
FragmentationEquivalence ==
    fed = Len(stream) =>
        \A one \in {OneShot} : tx = one.s.tx /\ sha3 = one.s.sha3

FragmentedToTheEnd ==
    /\ fed = Len(stream)
    /\ result = TX_STREAM_FINISHED
    /\ ctx.currentField = TX_RLP_DONE
    /\ tx.recipient.length = 2
    /\ tx # tx0

\* C2: the bytes fed to the hash are, in order, exactly the bytes the parser
\* has taken off its buffers.
HashedIsConsumed == sha3 = consumed

SingleByteHashed ==
    /\ gh.lastDone.single
    /\ gh.lastDone.to = fed
    /\ Len(sha3) > 3
    /\ Len(consumed) = fed
    /\ result = TX_STREAM_PROCESSING

\* C3: a retained field encoded as one byte b in 0x00..0x7f completes with
\* length 1 and value b, having moved the cursor by one byte and fed b to the
\* hash once; a field is classified single-byte exactly when it starts so.
SingleByteField ==
    LET d == gh.lastDone
        b == stream[d.from + 1]
    IN d.field # TX_RLP_NONE =>
         /\ d.single <=> b <= 127
         /\ (d.single /\ d.slot # NULL) =>
               /\ d.length = 1
               /\ tx[d.slot].length = 1
               /\ tx[d.slot].value[1] = b
               /\ d.to = d.from + 1
               /\ d.hashTo = d.hashFrom + 1
               /\ sha3[d.hashTo] = b

SingleByteRetained ==
    /\ gh.lastDone.single
    /\ gh.lastDone.slot = "gasPrice"
    /\ tx.gasPrice.length = 1
    /\ tx0.gasPrice.length # 1

\* a scalar header has been decoded that declares more than the maximum the
\* dispatcher passes for the field
CapExceeded(c) ==
    /\ c.isProcessingField
    /\ ~c.isCurrentFieldList
    /\ c.currentField \in Fields
    /\ c.currentFieldLength > FieldMax(c.currentField)

\* C4: a scalar header declaring more than the field's maximum makes the call
\* that decodes it return Fault, the cursor and the hash standing right after
\* the header, with no payload byte counted in the field or written to its slot.
CapacityFault ==
    [][CapExceeded(ctx') =>
          /\ result' = TX_STREAM_FAULT
          /\ ctx'.currentFieldPos = 0
          /\ Len(sha3') = gh'.hdrHash + HeaderBytes(stream[gh'.hdrAt + 1])
          /\ tx' = tx \/ FieldSlot(ctx'.currentField) = NULL
                      \/ tx'[FieldSlot(ctx'.currentField)] = tx[FieldSlot(ctx'.currentField)]
          /\ ~CapExceeded(ctx) =>
                ctx'.workBuffer = gh'.hdrAt + HeaderBytes(stream[gh'.hdrAt + 1])]_vars

CapacityFaulted ==
    /\ CapExceeded(ctx)
    /\ result = TX_STREAM_FAULT
    /\ ctx.currentField = TX_RLP_RECIPIENT
    /\ fed > ctx.workBuffer

\* C5: a call whose buffer ends exactly where the data field completes, so
\* that v is expected and none of its bytes has been read, returns Finished
\* and leaves the length of v at 0.
LegacyFinish ==
    [][(/\ fed' > fed
        /\ ctx'.currentField = TX_RLP_V
        /\ ~ctx'.isProcessingField
        /\ ctx'.rlpBufferPos = 0
        /\ gh'.lastDone.field = TX_RLP_DATA
        /\ gh'.lastDone.to = fed')
       => /\ result' = TX_STREAM_FINISHED
          /\ tx'.v.length = 0]_vars

LegacyFinished ==
    /\ ctx.currentField = TX_RLP_V
    /\ gh.lastDone.field = TX_RLP_DATA
    /\ result = TX_STREAM_FINISHED
    /\ tx.v.length = 0
    /\ tx0.v.length # 0

\* C6: Finished is returned only with the position done, or with the position
\* at v while no byte of v has been read and the in-field flag is clear.
FinishedOnlyAtBoundary ==
    result = TX_STREAM_FINISHED =>
        \/ ctx.currentField = TX_RLP_DONE
        \/ /\ ctx.currentField = TX_RLP_V
           /\ ~ctx.isProcessingField
           /\ ctx.rlpBufferPos = 0

\* C7 as stated: a scalar outermost item makes the first call on a fresh
\* state return Fault for every non-empty first buffer.
ScalarEnvelopeFaultsFirstCall ==
    [][(fed = 0 /\ fed' > 0 /\ stream[1] < 192) => result' = TX_STREAM_FAULT]_vars

\* C7 amended: with a scalar outermost item the call whose buffer brings the
\* byte that settles the envelope header returns Fault (the first call when
\* the first buffer holds it); a call whose buffer ends before that byte
\* returns Processing; the envelope is never passed.
ScalarEnvelopeFaults ==
    [][(fed' > fed /\ stream[1] < 192) =>
          /\ ctx'.currentField = TX_RLP_ENVELOPE
          /\ fed' >= SettledAt(stream[1]) => result' = TX_STREAM_FAULT
          /\ fed' < SettledAt(stream[1]) => result' = TX_STREAM_PROCESSING]_vars

ScalarEnvelopeFaulted ==
    /\ stream[1] < 192
    /\ HeaderBytes(stream[1]) = 2
    /\ fed = 2
    /\ result = TX_STREAM_FAULT
    /\ ctx.isProcessingField
    /\ ~ctx.isCurrentFieldList

\* C8: once a call has returned Fault, the next call returns Fault.
FaultIsTerminal ==
    [][result = TX_STREAM_FAULT => result' = TX_STREAM_FAULT]_vars

\* C9: once a call has returned Finished, the next call returns Fault and
\* changes neither the position, the destination record nor the hash.
FinishedIsGuarded ==
    [][result = TX_STREAM_FINISHED =>
          /\ result' = TX_STREAM_FAULT
          /\ ctx'.currentField = ctx.currentField
          /\ tx' = tx
          /\ sha3' = sha3]_vars

\* C10: the flags stored by the first call that passed its preconditions are
\* not changed by a later call.
FlagsLatchedOnce ==
    [][fed > 0 => ctx'.processingFlags = ctx.processingFlags]_vars

\* C11: a call with an empty buffer, or on a state whose position is
\* TX_RLP_NONE or TX_RLP_DONE, returns Fault and leaves the context, the
\* destination record and the hash as they were.
GuardedCall ==
    [][(fed' = fed \/ ctx.currentField \in {TX_RLP_NONE, TX_RLP_DONE}) =>
          /\ result' = TX_STREAM_FAULT
          /\ ctx' = ctx
          /\ tx' = tx
          /\ sha3' = sha3]_vars

GuardedAtDone ==
    /\ result = TX_STREAM_FAULT
    /\ ctx.currentField = TX_RLP_DONE
    /\ ctx.workBufferLength = 0
    /\ fed > Len(consumed)

PositionAdvances ==
    [][/\ ctx'.currentField >= ctx.currentField
       /\ ctx'.currentField <= TX_RLP_DONE
       /\ gh'.stepsOk]_vars

PositionWalked ==
    /\ gh.stepsOk
    /\ fed = Len(stream)
    /\ Len(consumed) = fed
    /\ result = TX_STREAM_FINISHED
    /\ ctx.currentField = TX_RLP_DONE
    /\ gh.env.field = TX_RLP_NONCE
    /\ gh.lastDone.field = TX_RLP_S

\* C14: the offset in the current field never exceeds its declared length;
\* every copy ends at or below the declared length, which is at most the
\* maximum passed for the field, and moves the smaller of what the buffer
\* still holds and what the field still needs.
CopyWithinField ==
    /\ ctx.currentFieldPos <= ctx.currentFieldLength
    /\ gh.copiesOk

CopiedInPart ==
    /\ gh.copiesOk
    /\ ctx.currentField = TX_RLP_RECIPIENT
    /\ ctx.isProcessingField
    /\ ctx.currentFieldPos = 1
    /\ ctx.currentFieldLength = 2
    /\ tx.recipient.value[1] # tx0.recipient.value[1]
    /\ tx.recipient.value[2] = tx0.recipient.value[2]

\* the rest of the stream in one call on the present state
Resume ==
    The({txStreamProcess(w, b, IntendedFlags) :
         w \in {Working(ctx, tx, sha3, gh)}, b \in {Buffer(Len(stream) - fed)}})

\* C15: Processing is returned only with the buffer used up, all of it taken
\* and hashed, and the position neither done nor at the edge of v; the state
\* then holds all that is needed to go on: the rest of the stream fed to it
\* ends as the whole stream fed to a fresh state does (but for the length of
\* v, which an earlier call that ended where v is expected has reset).
ProcessingIsResumable ==
    result = TX_STREAM_PROCESSING =>
        /\ ctx.workBufferLength = 0
        /\ gh.hw = fed
        /\ sha3 = SubSeq(stream, 1, fed)
        /\ ctx.currentField # TX_RLP_DONE
        /\ ~(ctx.currentField = TX_RLP_V /\ ~ctx.isProcessingField
                                         /\ ctx.rlpBufferPos = 0)
        /\ \A i \in 1..ctx.rlpBufferPos : ctx.rlpBuffer[i] = stream[fed - ctx.rlpBufferPos + i]
        /\ ctx.isProcessingField => ctx.currentFieldPos < ctx.currentFieldLength
        /\ (/\ fed < Len(stream)
            /\ gh.env.field # TX_RLP_NONE => FlagTypeSet(gh.env.flags) = typed)
           => \A one \in {OneShot} : \A rest \in {Resume} :
                 /\ rest.result = one.result
                 /\ [rest.s.tx EXCEPT !.v.length = 0] = [one.s.tx EXCEPT !.v.length = 0]
                 /\ kind \in {"valid", "trailing"} => rest.s.tx = one.s.tx
                 /\ rest.s.sha3 = one.s.sha3
                 /\ rest.s.ctx.currentField = one.s.ctx.currentField

ProcessingInHeaderOfV ==
    /\ result = TX_STREAM_PROCESSING
    /\ ctx.currentField = TX_RLP_V
    /\ ctx.rlpBufferPos = 1
    /\ ~ctx.isProcessingField
    /\ fed < Len(stream)

\* C16: the step that processes a list envelope leaves the cursor and the
\* hash right after the envelope header, the in-field flag clear and the
\* declared length recorded, and expects the type field next if the flags
\* carry TX_FLAG_TYPE and the nonce otherwise.
EnvelopeStep ==
    /\ ctx.currentField > TX_RLP_ENVELOPE => gh.env.field # TX_RLP_NONE
    /\ gh.env.field # TX_RLP_NONE =>
          /\ stream[1] >= 192
          /\ gh.env.cursor = HeaderBytes(stream[1])
          /\ gh.env.hashed = HeaderBytes(stream[1])
          /\ ~gh.env.inField
          /\ gh.env.declared = DeclaredLength(stream)
          /\ gh.env.field = IF FlagTypeSet(gh.env.flags)
                            THEN TX_RLP_TYPE ELSE TX_RLP_NONCE
          /\ fed = HeaderBytes(stream[1]) =>
                /\ ctx.currentField = gh.env.field
                /\ ~ctx.isProcessingField
                /\ ctx.workBuffer = fed
                /\ sha3 = SubSeq(stream, 1, fed)

EnvelopeStepped ==
    /\ stream[1] = 248
    /\ fed = 2
    /\ result = TX_STREAM_PROCESSING
    /\ gh.env.field = TX_RLP_TYPE
    /\ ctx.currentField = TX_RLP_TYPE
    /\ ctx.dataLength = stream[2]

\* a list header has been decoded where a scalar field is expected
ListInField(c) ==
    /\ c.isProcessingField
    /\ c.isCurrentFieldList
    /\ c.currentField \in Fields

\* C17: a list header at a position after the envelope makes the call that
\* decodes it return Fault with the cursor and the hash right after that
\* header, no byte counted in the field and nothing written to its slot;
\* later calls on that state fault again and take nothing.
ListFault ==
    [][ListInField(ctx') =>
          /\ result' = TX_STREAM_FAULT
          /\ ctx'.currentFieldPos = 0
          /\ Len(sha3') = gh'.hdrHash + HeaderBytes(stream[gh'.hdrAt + 1])
          /\ \A slot \in Slots :
                FieldSlot(ctx'.currentField) = slot => tx'[slot] = tx[slot]
          /\ IF ListInField(ctx)
             THEN tx' = tx /\ sha3' = sha3 /\ gh'.hw = fed
             ELSE /\ ctx'.workBuffer = gh'.hdrAt + HeaderBytes(stream[gh'.hdrAt + 1])
                  /\ gh'.hw = ctx'.workBuffer]_vars

ListFaulted ==
    /\ ListInField(ctx)
    /\ result = TX_STREAM_FAULT
    /\ ctx.currentField = TX_RLP_V
    /\ stream[gh.hdrAt + 1] = 248
    /\ ctx.workBuffer = gh.hdrAt + 2
    /\ fed > ctx.workBuffer

\* the fields the destination record has no slot for
NonRetained == {TX_RLP_TYPE, TX_RLP_NONCE, TX_RLP_DATA, TX_RLP_R, TX_RLP_S}

\* the fields from..to - 1 are completed and `to` is at most entered
Passed(from, to) == from..(to - 1)

\* C18: a call that works on non-retained fields only (it starts at one,
\* completes non-retained fields only and copies no payload of a retained
\* one) leaves the destination record as it was, but for the reset of the
\* length of v when it returns Finished where v is expected; every byte it
\* takes is hashed, and each field it leaves is left with its whole item
\* taken, header and declared length.
NonRetainedUntouched ==
    [][(/\ fed' > fed
        /\ ctx.currentField \in NonRetained
        /\ Passed(ctx.currentField, ctx'.currentField) \subseteq NonRetained
        /\ ctx'.currentField \in NonRetained \cup {TX_RLP_DONE}
              \/ ~ctx'.isProcessingField)
       => /\ tx' = IF ctx'.currentField = TX_RLP_V /\ result' = TX_STREAM_FINISHED
                   THEN [tx EXCEPT !.v.length = 0] ELSE tx
          /\ Len(sha3') = Len(sha3) + (gh'.hw - fed)
          /\ result' = TX_STREAM_PROCESSING => gh'.hw = fed'
          /\ (ctx'.isProcessingField /\ result' # TX_STREAM_FAULT)
                => ctx'.currentFieldPos < ctx'.currentFieldLength
          /\ ctx'.currentField > ctx.currentField =>
                LET d == gh'.lastDone IN
                /\ d.field = ctx'.currentField - 1
                /\ d.slot = NULL
                /\ d.to - d.from = IF d.single THEN 1
                                   ELSE HeaderBytes(stream[d.from + 1]) + d.length
                /\ d.hashTo - d.hashFrom = d.to - d.from]_vars

NonRetainedPassed ==
    /\ gh.lastDone.field = TX_RLP_S
    /\ gh.lastDone.slot = NULL
    /\ gh.lastDone.length = 2
    /\ gh.lastDone.hashTo - gh.lastDone.hashFrom = 3
    /\ gh.lastDone.to = fed
    /\ ctx.currentField = TX_RLP_DONE
    /\ tx.recipient.length = 1

\* C19: the call in which the position becomes TX_RLP_DONE returns Finished,
\* its cursor standing where the last field ended; what the buffer holds
\* beyond is left in it, neither taken nor hashed.
DoneInBuffer ==
    [][(ctx.currentField # TX_RLP_DONE /\ ctx'.currentField = TX_RLP_DONE) =>
          LET end == gh'.lastDone.to IN
          /\ result' = TX_STREAM_FINISHED
          /\ gh'.lastDone.field = TX_RLP_S
          /\ gh'.hw = end
          /\ ctx'.workBuffer = end
          /\ ctx'.workBufferLength = fed' - end
          /\ Len(sha3') = Len(sha3) + (end - fed)
          /\ consumed' = consumed \o SubSeq(stream, fed + 1, end)]_vars

DoneBeforeTheEnd ==
    /\ kind = "trailing"
    /\ ctx.currentField = TX_RLP_DONE
    /\ result = TX_STREAM_FINISHED
    /\ ctx.workBufferLength = TrailLen
    /\ fed = Len(stream)
    /\ sha3 = SubSeq(stream, 1, Len(stream) - TrailLen)

\* the context but for the recorded envelope length, the header scratch and,
\* between two fields, the length of the item decoded last
Progress(c) ==
    [c EXCEPT !.dataLength = 0,
              !.rlpBuffer = [i \in 1..RLP_LENGTH_BUFFER_SIZE |-> 0],
              !.currentFieldLength = IF c.isProcessingField THEN @ ELSE 0]

\* C20: two streams that differ only in the length their envelope declares,
\* cut into the same buffers with the same flags, give after every call the
\* same status, the same destination record and the same progress; each
\* context only records what its envelope declared.
DeclaredLengthIgnored ==
    /\ twin.result = result
    /\ twin.tx = tx
    /\ Progress(twin.ctx) = Progress(ctx)
    /\ Len(twin.sha3) = Len(sha3)
    /\ gh.env.field # TX_RLP_NONE =>
          /\ ctx.dataLength = DeclaredLength(stream)
          /\ twin.ctx.dataLength = DeclaredLength(twin.stream)
          /\ twin.ctx.dataLength # ctx.dataLength

FinishedAgainstDeclared ==
    /\ result = TX_STREAM_FINISHED
    /\ twin.result = TX_STREAM_FINISHED
    /\ twin.ctx.currentField = TX_RLP_DONE
    /\ fed = Len(stream)
    /\ kind = "valid"
    /\ Len(sha3) - gh.env.hashed = ctx.dataLength
    /\ Len(twin.sha3) - twin.gh.env.hashed # twin.ctx.dataLength

====
